---- MODULE Spec2Model ----
(***************************************************************************)
(* A model of the bulk ingestion pipeline of multinet-api:                 *)
(*   multinet/api/tasks/process/utils.py         the coercion functions    *)
(*   multinet/api/tasks/upload/process_single_table.py                     *)
(*                                    process_row and process_single_table *)
(*                                                                         *)
(* Python strings are sequences of one-character strings, so that a        *)
(* separator test, a split or a prefix is computed and not assumed.        *)
(* Every Python value is a record [t |-> type name, v |-> payload], the    *)
(* payload being a sequence of characters: a str carries its characters,   *)
(* an int its canonical decimal digits, a float its canonical repr, a bool *)
(* the characters of True or False.                                        *)
(***************************************************************************)
EXTENDS Integers, Sequences, FiniteSets, TLC

(***************************************************************************)
(* Bounds of the model.                                                    *)
(***************************************************************************)
\* Longest row source of a batch-mode run.
MaxRows == 5
\* The batch threshold, 100000 in the code (process_single_table.py:104),
\* scaled down; every statement below is made for the threshold as a
\* parameter.
BatchSize == 2

(***************************************************************************)
(* Python values.                                                          *)
(***************************************************************************)
None == [t |-> "NoneType", v |-> <<>>]
PyStr(s) == [t |-> "str", v |-> s]
PyInt(digits) == [t |-> "int", v |-> digits]
PyFloat(repr) == [t |-> "float", v |-> repr]
PyBool(b) == [t |-> "bool", v |-> IF b THEN <<"T", "r", "u", "e">> ELSE <<"F", "a", "l", "s", "e">>]

\* bool(x) of a cell: None and the empty string are falsy.
Truthy(x) == x.t # "NoneType" /\ x.v # <<>>

\* str(x) of a cell: a str is itself, None becomes the four characters None.
str(x) == IF x.t = "NoneType" THEN <<"N", "o", "n", "e">> ELSE x.v

DigitChars == {"0", "1", "2", "3", "4", "5", "6", "7", "8", "9"}

IsDigits(s) == Len(s) > 0 /\ \A i \in 1..Len(s) : s[i] \in DigitChars

RECURSIVE StripLeadingZeros(_)
StripLeadingZeros(s) ==
    IF Len(s) > 1 /\ s[1] = "0" THEN StripLeadingZeros(Tail(s)) ELSE s

RECURSIVE StripTrailingZeros(_)
StripTrailingZeros(s) ==
    IF Len(s) > 1 /\ s[Len(s)] = "0" THEN StripTrailingZeros(SubSeq(s, 1, Len(s) - 1)) ELSE s

DigitValue(c) ==
    CASE c = "0" -> 0 [] c = "1" -> 1 [] c = "2" -> 2 [] c = "3" -> 3 [] c = "4" -> 4
      [] c = "5" -> 5 [] c = "6" -> 6 [] c = "7" -> 7 [] c = "8" -> 8 [] c = "9" -> 9

RECURSIVE NatOf(_)
NatOf(s) == IF s = <<>> THEN 0 ELSE 10 * NatOf(SubSeq(s, 1, Len(s) - 1)) + DigitValue(s[Len(s)])

\* Index of the first occurrence of character c in s, 0 when there is none.
Find(s, c) == IF \E i \in 1..Len(s) : s[i] = c THEN CHOOSE i \in 1..Len(s) : s[i] = c /\ \A j \in 1..(i - 1) : s[j] # c ELSE 0

Count(s, c) == Cardinality({i \in 1..Len(s) : s[i] = c})

UpperLetters == <<"A", "B", "C", "D", "E", "F", "G", "H", "I", "J", "K", "L", "M",
                 "N", "O", "P", "Q", "R", "S", "T", "U", "V", "W", "X", "Y", "Z">>
LowerLetters == <<"a", "b", "c", "d", "e", "f", "g", "h", "i", "j", "k", "l", "m",
                 "n", "o", "p", "q", "r", "s", "t", "u", "v", "w", "x", "y", "z">>

\* s.lower()
Lower(s) ==
    [i \in 1..Len(s) |->
        IF \E k \in 1..26 : UpperLetters[k] = s[i]
        THEN LowerLetters[CHOOSE k \in 1..26 : UpperLetters[k] = s[i]]
        ELSE s[i]]

(***************************************************************************)
(* The coercion functions.  An outcome is [exc, val]: exc is "none" and    *)
(* val the value returned, or exc names the exception raised.              *)
(***************************************************************************)
Returns(val) == [exc |-> "none", val |-> val]
Raises(exc) == [exc |-> exc, val |-> None]

\* int(entry), for entries over digits, letters, '.', '/', '-', ':' with no
\* sign, space or underscore: the decimal digit strings.
py_int(entry) ==
    IF IsDigits(entry) THEN Returns(PyInt(StripLeadingZeros(entry))) ELSE Raises("ValueError")

\* float(entry), for the same entries without an exponent: digits with at
\* most one '.', and the words inf and nan in any letter case.
py_float(entry) ==
    LET dot == Find(entry, ".")
        whole == IF dot = 0 THEN entry ELSE SubSeq(entry, 1, dot - 1)
        frac == IF dot = 0 THEN <<>> ELSE SubSeq(entry, dot + 1, Len(entry))
        digitsOnly(s) == \A i \in 1..Len(s) : s[i] \in DigitChars
    IN  IF Lower(entry) = <<"i", "n", "f">> \/ Lower(entry) = <<"n", "a", "n">>
        THEN Returns(PyFloat(Lower(entry)))
        ELSE IF digitsOnly(whole) /\ digitsOnly(frac) /\ Len(whole) + Len(frac) > 0
        THEN Returns(PyFloat(StripLeadingZeros(IF whole = <<>> THEN <<"0">> ELSE whole)
                           \o <<".">>
                           \o StripTrailingZeros(IF frac = <<>> THEN <<"0">> ELSE frac)))
        ELSE Raises("ValueError")

\* A cascade that lowers the entry before the yes/no test.
str_to_bool_AnyCase(entry) ==
    LET low == Lower(entry)
    IN  IF entry = <<"0">> THEN Returns(PyBool(FALSE))
        ELSE IF entry = <<"1">> THEN Returns(PyBool(TRUE))
        ELSE IF entry = <<"t", "r", "u", "e">> THEN Returns(PyBool(TRUE))
        ELSE IF entry = <<"f", "a", "l", "s", "e">> THEN Returns(PyBool(FALSE))
        ELSE IF low = <<"n", "o">> \/ low = <<"o", "f", "f">> THEN Returns(PyBool(FALSE))
        ELSE IF low = <<"y", "e", "s">> \/ low = <<"o", "n">> THEN Returns(PyBool(TRUE))
        ELSE Raises("ValueError")

str_to_bool(entry) ==
    LET from_int == IF entry = <<"0">> THEN Returns(PyBool(FALSE))
                    ELSE IF entry = <<"1">> THEN Returns(PyBool(TRUE))
                    ELSE Returns(None)
        from_json_bool == IF entry = <<"t", "r", "u", "e">> THEN Returns(PyBool(TRUE))
                          ELSE IF entry = <<"f", "a", "l", "s", "e">> THEN Returns(PyBool(FALSE))
                          ELSE Returns(None)
        from_yaml_bool == IF entry = <<"n", "o">> \/ entry = <<"o", "f", "f">> THEN Returns(PyBool(FALSE))
                          ELSE IF entry = <<"y", "e", "s">> \/ entry = <<"o", "n">> THEN Returns(PyBool(TRUE))
                          ELSE Returns(None)
    IN  IF from_int.val # None THEN from_int
        ELSE IF from_json_bool.val # None THEN from_json_bool
        ELSE IF from_yaml_bool.val # None THEN from_yaml_bool
        ELSE Raises("ValueError")

\* A function that tries the float parse first.
str_to_number_FloatFirst(entry) ==
    IF py_float(entry).exc = "none" THEN py_float(entry) ELSE py_int(entry)

str_to_number(entry) ==
    IF py_int(entry).exc = "none" THEN py_int(entry) ELSE py_float(entry)

TwoDigits(n) == <<CHOOSE c \in DigitChars : DigitValue(c) = n \div 10,
                  CHOOSE c \in DigitChars : DigitValue(c) = n % 10>>

\* datetime.fromtimestamp(f).isoformat() for a float f given by its canonical
\* repr, in UTC.  inf is out of range for time_t (OverflowError), nan is a
\* ValueError; a timestamp of the first day of the epoch gives that day.
fromtimestamp_isoformat(f) ==
    LET dot == Find(f.v, ".")
        secs == NatOf(SubSeq(f.v, 1, dot - 1))
        frac == SubSeq(f.v, dot + 1, Len(f.v))
        micro == IF frac = <<"0">> THEN <<>>
                 ELSE <<".">> \o [i \in 1..6 |-> IF i <= Len(frac) THEN frac[i] ELSE "0"]
    IN  IF f.v = <<"i", "n", "f">> THEN Raises("OverflowError")
        ELSE IF f.v = <<"n", "a", "n">> THEN Raises("ValueError")
        ELSE Returns(PyStr(<<"1", "9", "7", "0", "-", "0", "1", "-", "0", "1", "T">>
                         \o TwoDigits((secs \div 3600) % 24) \o <<":">>
                         \o TwoDigits((secs \div 60) % 60) \o <<":">>
                         \o TwoDigits(secs % 60) \o micro))

\* YYYY-MM-DD
IsIsoDate(s) ==
    /\ Len(s) = 10
    /\ \A i \in {1, 2, 3, 4, 6, 7, 9, 10} : s[i] \in DigitChars
    /\ s[5] = "-" /\ s[8] = "-"

\* hh:mm:ss
IsIsoTime(s) ==
    /\ Len(s) = 8
    /\ \A i \in {1, 2, 4, 5, 7, 8} : s[i] \in DigitChars
    /\ s[3] = ":" /\ s[6] = ":"

\* YYYY-MM-DDThh:mm:ss
IsIsoDateTime(s) ==
    /\ Len(s) = 19
    /\ IsIsoDate(SubSeq(s, 1, 10))
    /\ s[11] = "T"
    /\ IsIsoTime(SubSeq(s, 12, 19))

\* dateutil.parser.parse(entry).isoformat(), for the entries float() rejects:
\* a date gives midnight of that day, a date and time is itself, and an
\* entry that names no date (the empty string, a word) makes the parser
\* raise ParserError, a ValueError.
dateutil_parse_isoformat(entry) ==
    IF IsIsoDate(entry)
    THEN Returns(PyStr(entry \o <<"T", "0", "0", ":", "0", "0", ":", "0", "0">>))
    ELSE IF IsIsoDateTime(entry)
    THEN Returns(PyStr(entry))
    ELSE Raises("ValueError")

\* A function that returns the entry as it is when it is no timestamp.
str_to_datestr_KeepsOriginal(entry) ==
    LET f == py_float(entry)
        stamp == IF f.exc = "none" THEN fromtimestamp_isoformat(f.val) ELSE f
    IN  IF stamp.exc = "ValueError"
        THEN (IF dateutil_parse_isoformat(entry).exc = "none" THEN Returns(PyStr(entry))
              ELSE Raises("ValueError"))
        ELSE stamp

str_to_datestr(entry) ==
    LET f == py_float(entry)
        stamp == IF f.exc = "none" THEN fromtimestamp_isoformat(f.val) ELSE f
    IN  IF stamp.exc = "ValueError" THEN dateutil_parse_isoformat(entry) ELSE stamp

\* processor_dict: the column types that have a processor function.
processor_dict == {"boolean", "date", "number"}

process_func(col_type, entry) ==
    CASE col_type = "boolean" -> str_to_bool(entry)
      [] col_type = "date" -> str_to_datestr(entry)
      [] col_type = "number" -> str_to_number(entry)

(***************************************************************************)
(* Rows and documents are Python dicts: functions from keys to values.     *)
(* column_types is a dict in insertion order: a sequence of                *)
(* [col, type] with distinct columns.                                      *)
(***************************************************************************)
\* The key None: what reversed_cols.get gives for a type no column has.
NoneKey == "<None>"

\* dict.get(k): None for a key the dict does not hold.
Get(d, k) == IF k \in DOMAIN d THEN d[k] ELSE None

\* The dict after d[k] = val.
Put(d, k, val) == [c \in (DOMAIN d) \cup {k} |-> IF c = k THEN val ELSE d[c]]

\* The dict after d.pop(k), for a key it holds.
Del(d, k) == [c \in (DOMAIN d) \ {k} |-> d[c]]

EmptyDict == [c \in {} |-> None]

\* s.split('/')[0]
TableSegment(s) == IF Find(s, "/") = 0 THEN s ELSE SubSeq(s, 1, Find(s, "/") - 1)

\* len(s.split('/'))
SplitLen(s) == Count(s, "/") + 1

\* What process_row does with a row: [kind, doc, exc].  kind is "doc" with
\* the document returned, "None" for the rejected marker, or "raise" with
\* the exception that leaves process_row.
Accepted(doc) == [kind |-> "doc", doc |-> doc, exc |-> "none"]
Rejected == [kind |-> "None", doc |-> EmptyDict, exc |-> "none"]
Raised(exc) == [kind |-> "raise", doc |-> EmptyDict, exc |-> exc]

\* A gate that is content with one endpoint.
AcceptanceGate_OneEndpoint(row, primary_key, edge_source, edge_target) ==
    Truthy(Get(row, primary_key))
        \/ Truthy(Get(row, edge_source)) \/ Truthy(Get(row, edge_target))

\* Lines 8-10: the row has a primary key, or a source and a target.
AcceptanceGate(row, primary_key, edge_source, edge_target) ==
    Truthy(Get(row, primary_key))
        \/ (Truthy(Get(row, edge_source)) /\ Truthy(Get(row, edge_target)))

\* A rename that copies the key and leaves the column in place.
KeyRename_KeepsColumn(new_row, primary_key) ==
    IF primary_key # NoneKey
    THEN Put(new_row, "_key", PyStr(str(new_row[primary_key])))
    ELSE new_row

\* Lines 12-14: the primary key column becomes _key.
KeyRename(new_row, primary_key) ==
    IF primary_key # NoneKey
    THEN Put(Del(new_row, primary_key), "_key", PyStr(str(new_row[primary_key])))
    ELSE new_row

\* Lines 18-19: the edge columns become _from and _to.
EdgeRename(new_row, edge_source, edge_target) ==
    LET with_from == Put(Del(new_row, edge_source), "_from", PyStr(str(new_row[edge_source])))
    IN  Put(Del(with_from, edge_target), "_to", PyStr(str(with_from[edge_target])))

\* A test that asks both endpoints to lack a table.
Unqualifiable_BothBare(new_row, node_table_name) ==
    Find(new_row["_from"].v, "/") = 0 /\ Find(new_row["_to"].v, "/") = 0 /\ ~Truthy(node_table_name)

\* Lines 21-23: an endpoint without a table and no node table to give it.
Unqualifiable(new_row, node_table_name) ==
    (Find(new_row["_from"].v, "/") = 0 /\ ~Truthy(node_table_name))
        \/ (Find(new_row["_to"].v, "/") = 0 /\ ~Truthy(node_table_name))

\* Lines 25-30: node_table_name is put before an endpoint that has no table.
Qualify(endpoint, node_table_name) ==
    IF Find(endpoint.v, "/") = 0 /\ Truthy(node_table_name)
    THEN PyStr(node_table_name.v \o <<"/">> \o endpoint.v)
    ELSE endpoint

QualifyEndpoints(new_row, node_table_name) ==
    LET with_from == Put(new_row, "_from", Qualify(new_row["_from"], node_table_name))
    IN  Put(with_from, "_to", Qualify(with_from["_to"], node_table_name))

\* A check that looks at _to alone.
WrongTable_TargetOnly(new_row, node_table_name) ==
    Truthy(node_table_name) /\ TableSegment(new_row["_to"].v) # node_table_name.v

\* Lines 32-34: with a node table name, both endpoints must be of that table.
WrongTable(new_row, node_table_name) ==
    Truthy(node_table_name)
        /\ (TableSegment(new_row["_to"].v) # node_table_name.v
            \/ TableSegment(new_row["_from"].v) # node_table_name.v)

\* A check that looks at _from alone.
TooManySlashes_SourceOnly(new_row) ==
    SplitLen(new_row["_from"].v) > 2

\* Lines 36-38: more than one slash in an endpoint.
TooManySlashes(new_row) ==
    SplitLen(new_row["_from"].v) > 2 \/ SplitLen(new_row["_to"].v) > 2

\* Lines 41-54: the typed columns, in the order of cols, read from the
\* original row.  A ValueError keeps the value; any other exception leaves
\* process_row.
RECURSIVE CoerceColumns(_, _, _, _)
CoerceColumns(cols, i, row, new_row) ==
    IF i > Len(cols) THEN Accepted(new_row)
    ELSE LET col_key == cols[i].col
             col_type == cols[i].type
             entry == Get(row, col_key)
         IN  IF entry = None \/ col_type \notin processor_dict
             THEN CoerceColumns(cols, i + 1, row, new_row)
             ELSE LET out == process_func(col_type, entry.v)
                  IN  IF out.exc = "none"
                      THEN CoerceColumns(cols, i + 1, row, Put(new_row, col_key, out.val))
                      ELSE IF out.exc = "ValueError"
                      THEN CoerceColumns(cols, i + 1, row, new_row)
                      ELSE Raised(out.exc)

\* Lines 16-38: the edge endpoints of a row that has both columns declared.
ResolveEdge(new_row, edge_source, edge_target, node_table_name) ==
    IF edge_source \notin DOMAIN new_row \/ edge_target \notin DOMAIN new_row
    THEN Raised("KeyError")
    ELSE LET renamed == EdgeRename(new_row, edge_source, edge_target)
             qualified == QualifyEndpoints(renamed, node_table_name)
         IN  IF Unqualifiable(renamed, node_table_name) THEN Rejected
             ELSE IF WrongTable(qualified, node_table_name) THEN Rejected
             ELSE IF TooManySlashes(qualified) THEN Rejected
             ELSE Accepted(qualified)

process_row(row, cols, primary_key, edge_source, edge_target, node_table_name) ==
    IF ~AcceptanceGate(row, primary_key, edge_source, edge_target) THEN Rejected
    ELSE IF primary_key # NoneKey /\ primary_key \notin DOMAIN row THEN Raised("KeyError")
    ELSE LET keyed == KeyRename(row, primary_key)
             edged == IF edge_source # NoneKey /\ edge_target # NoneKey
                      THEN ResolveEdge(keyed, edge_source, edge_target, node_table_name)
                      ELSE Accepted(keyed)
         IN  IF edged.kind = "doc" THEN CoerceColumns(cols, 1, row, edged.doc) ELSE edged

(***************************************************************************)
(* The inputs of process_single_table.                                     *)
(***************************************************************************)
Col(col, type) == [col |-> col, type |-> type]

\* The column type declarations: a primary key column or none, no edge
\* column, a source alone or a source and a target, and one more column: of
\* each type that has or lacks a processor, of a type that is none, or a
\* second primary key (a dict of column types may give one type twice).
KeyDeclarations == {<<>>, <<Col("id", "primary key")>>}
EdgeDeclarations == {<<>>, <<Col("src", "edge source")>>,
                     <<Col("src", "edge source"), Col("dst", "edge target")>>}
DataDeclarations == {<<Col("score", t)>> :
                        t \in {"label", "number", "boolean", "date", "invalid", "primary key"}}
Declarations == {k \o e \o d : k \in KeyDeclarations, e \in EdgeDeclarations, d \in DataDeclarations}

\* node_table_name: None, or the table a.
NodeTableNames == {None, PyStr(<<"a">>)}

\* A cell a row does not have: the key is absent from the dict.
Absent == [t |-> "absent", v |-> <<>>]

Row(id, src, dst, score) ==
    LET cells == [c \in {"id", "src", "dst", "score"} |->
                    CASE c = "id" -> id [] c = "src" -> src [] c = "dst" -> dst [] c = "score" -> score]
    IN  [c \in {k \in DOMAIN cells : cells[k] # Absent} |-> cells[c]]

\* The rows of a one-row source: every combination of these cells.
IdCells == {Absent, None, PyStr(<<>>), PyStr(<<"1">>)}
SrcCells == {Absent, None, PyStr(<<>>), PyStr(<<"1">>), PyStr(<<"a", "/", "1">>),
             PyStr(<<"b", "/", "1">>), PyStr(<<"a", "/", "b", "/", "1">>)}
DstCells == {Absent, None, PyStr(<<"2">>), PyStr(<<"a", "/", "2">>), PyStr(<<"b", "/", "2">>),
             PyStr(<<"a", "/", "2", "/", "2">>)}
ScoreCells == {None, PyStr(<<"1">>), PyStr(<<"x">>), PyStr(<<"i", "n", "f">>)}
SingleRows == {Row(i, s, d, c) : i \in IdCells, s \in SrcCells, d \in DstCells, c \in ScoreCells}

\* The rows of a longer source.
RowA == Row(PyStr(<<"1">>), PyStr(<<"1">>), PyStr(<<"a", "/", "2">>), PyStr(<<"1", "0">>))
RowB == Row(PyStr(<<>>), PyStr(<<"a", "/", "1">>), PyStr(<<"b", "/", "2">>), PyStr(<<"2", "0">>))
RowC == Row(PyStr(<<"3">>), None, None, PyStr(<<"x">>))
RowD == Row(PyStr(<<"4">>), PyStr(<<"a", "/", "1">>), PyStr(<<"a", "/", "2">>), PyStr(<<"i", "n", "f">>))
BatchRows == {RowA, RowB, RowC, RowD}

(***************************************************************************)
(* The state: the arguments of process_single_table, its position and      *)
(* locals, the row source, and the store.                                  *)
(***************************************************************************)
VARIABLES
    mode,              \* "row": a source of at most one row; "batch": of up to MaxRows rows
    column_types,      \* argument column_types
    edge,              \* argument edge
    node_table_name,   \* argument node_table_name
    run,               \* 1 for the first call with this table name, 2 for the second
    pc,                \* position in process_single_table
    error,             \* the exception that ended the call, "none" if none
    rowsRead,          \* the rows taken from row_data by this call, in order
    new_row,           \* local new_row: what process_row did with the last row
    processed_rows,    \* local processed_rows
    putCalls,          \* the put_rows calls of this call: [rows, ok]
    tableExists,       \* the store: the Table record exists
    tableEdge,         \* the store: its edge flag
    annotated,         \* the store: number of bulk_create calls for the table
    annotations,       \* the store: the TableTypeAnnotation records
    docs,              \* the store: the documents of the table, in insertion order
    upload,            \* the Upload record: [status, error_messages]
    passed,            \* the messages passed to fail_upload_with_message so far, in order
    last_call,         \* the last helper called on the upload, "none" before the first
    func_type,         \* a call of a processor function: the column type that selects it
    func_entry,        \* its argument entry
    func_result,       \* what it returned or raised, NotCalled before the call
    workspace,         \* the workspace a request names: [exists, public, database, networks]
    user,              \* the requesting user: [owner, role]
    request,           \* the last request: [decorator, minimum_permission, operation]
    response,          \* its status code, 0 before the first request
    invalid_columns,   \* the columns a 400 answer names as invalid
    requests,          \* number of requests made to a guarded endpoint
    executed           \* number of times a wrapped operation has run

uploadVars == <<upload, passed, last_call>>
funcVars == <<func_type, func_entry, func_result>>
authVars == <<workspace, user, request, response, invalid_columns, requests, executed>>

\* What a call of process_single_table does not touch.
elsewhere == <<uploadVars, funcVars, authVars>>

args == <<mode, column_types, edge, node_table_name>>
store == <<tableExists, tableEdge, annotated, annotations, docs>>

vars == <<mode, column_types, edge, node_table_name, run, pc, error, rowsRead, new_row,
          processed_rows, putCalls, tableExists, tableEdge, annotated, annotations, docs,
          elsewhere>>

\* An Upload as it is created: test_upload_csv.py:70-71.
NewUpload == [status |-> "PENDING", error_messages |-> None]

IdleUpload == upload = NewUpload /\ passed = <<>> /\ last_call = "none"

\* No processor function has been called.
NotCalled == [exc |-> "not called", val |-> None]

IdleFunc == func_type = "label" /\ func_entry = <<>> /\ func_result = NotCalled

NoWorkspace == [exists |-> FALSE, public |-> FALSE, database |-> FALSE, networks |-> {}]
NoRole == "none"
NoRequest == [decorator |-> "none", minimum_permission |-> NoRole, operation |-> "none"]

IdleAuth ==
    /\ workspace = NoWorkspace
    /\ user = [owner |-> FALSE, role |-> NoRole]
    /\ request = NoRequest
    /\ response = 0
    /\ invalid_columns = {}
    /\ requests = 0
    /\ executed = 0

\* reversed_cols.get(type): the last column declared with the type (line 74).
reversed_cols_get(cols, type) ==
    IF \E i \in 1..Len(cols) : cols[i].type = type
    THEN cols[CHOOSE i \in 1..Len(cols) : cols[i].type = type /\ \A j \in (i + 1)..Len(cols) : cols[j].type # type].col
    ELSE NoneKey

primary_key == reversed_cols_get(column_types, "primary key")
edge_source == reversed_cols_get(column_types, "edge source")
edge_target == reversed_cols_get(column_types, "edge target")

\* d[new] = d.pop(old) on a dict in insertion order: the entry moves to the end.
Rekey(cols, old, new) ==
    LET i == CHOOSE i \in 1..Len(cols) : cols[i].col = old
    IN  SubSeq(cols, 1, i - 1) \o SubSeq(cols, i + 1, Len(cols)) \o <<Col(new, cols[i].type)>>

\* An annotation dict that leaves the primary key under its column name.
type_annotation_cols_KeepsKeyName ==
    IF edge_source # NoneKey /\ edge_target # NoneKey
    THEN Rekey(Rekey(column_types, edge_source, "_from"), edge_target, "_to")
    ELSE column_types

\* An annotation dict that keeps an edge source only with an edge target.
type_annotation_cols_DropsLoneSource ==
    LET keyed == IF primary_key # NoneKey THEN Rekey(column_types, primary_key, "_key") ELSE column_types
    IN  IF edge_source # NoneKey /\ edge_target # NoneKey
        THEN Rekey(Rekey(keyed, edge_source, "_from"), edge_target, "_to")
        ELSE SelectSeq(keyed, LAMBDA c : c.type \notin {"edge source", "edge target"})

\* Lines 79-86.
type_annotation_cols ==
    LET keyed == IF primary_key # NoneKey THEN Rekey(column_types, primary_key, "_key") ELSE column_types
    IN  IF edge_source # NoneKey /\ edge_target # NoneKey
        THEN Rekey(Rekey(keyed, edge_source, "_from"), edge_target, "_to")
        ELSE keyed

SourceRows == IF mode = "row" THEN SingleRows ELSE BatchRows
SourceLen == IF mode = "row" THEN 1 ELSE MaxRows

InitCall ==
    /\ column_types \in Declarations
    /\ edge \in BOOLEAN
    /\ node_table_name \in NodeTableNames
    /\ run = 1
    /\ pc = "request"
    /\ error = "none"
    /\ rowsRead = <<>>
    /\ new_row = Rejected
    /\ processed_rows = <<>>
    /\ putCalls = <<>>
    /\ tableExists = FALSE
    /\ tableEdge = FALSE
    /\ annotated = 0
    /\ annotations = <<>>
    /\ docs = <<>>
    /\ IdleUpload /\ IdleFunc /\ IdleAuth

Init == mode = "batch" /\ InitCall

InitRow == mode = "row" /\ InitCall

\* The types a column may be declared with: the types process_single_table
\* looks up (lines 75-77) and those of ColumnTypeEnum (utils.py:12-21).
ColumnTypes == {"primary key", "edge source", "edge target",
                "label", "boolean", "category", "number", "date"}

\* The columns declared with a type that is none of them.
InvalidColumns(cols) == {cols[i].col : i \in {j \in 1..Len(cols) : cols[j].type \notin ColumnTypes}}

\* A request handler that checks no type.
ValidateColumns_AcceptsAll ==
    /\ pc = "request"
    /\ pc' = "create"
    /\ response' = 200
    /\ invalid_columns' = {}
    /\ UNCHANGED <<args, run, error, rowsRead, new_row, processed_rows, putCalls, store,
                   uploadVars, funcVars, workspace, user, request, requests, executed>>

\* The upload request: the declared types are checked before anything is
\* created, and an invalid one is answered 400 with the column named
\* (test_upload_csv.py:77-96).
ValidateColumns ==
    /\ pc = "request"
    /\ IF InvalidColumns(column_types) # {}
       THEN /\ pc' = "rejected"
            /\ response' = 400
            /\ invalid_columns' = InvalidColumns(column_types)
       ELSE /\ pc' = "create"
            /\ response' = 200
            /\ invalid_columns' = {}
    /\ UNCHANGED <<args, run, error, rowsRead, new_row, processed_rows, putCalls, store,
                   uploadVars, funcVars, workspace, user, request, requests, executed>>

\* Table.objects.create: a table name is unique in its workspace, and
\* creating a table under a name that is taken raises.
NameTaken == tableExists

\* A creation that goes on to the rows without the annotations.
CreateTable_SkipsAnnotations ==
    /\ pc = "create"
    /\ IF NameTaken
       THEN /\ pc' = "failed"
            /\ error' = "IntegrityError"
            /\ UNCHANGED store
       ELSE /\ pc' = "rows"
            /\ tableExists' = TRUE
            /\ tableEdge' = edge
            /\ UNCHANGED <<error, annotated, annotations, docs>>
    /\ UNCHANGED <<elsewhere, args, run, rowsRead, new_row, processed_rows, putCalls>>

\* A creation that takes the table that exists: get_or_create.
CreateTable_GetOrCreate ==
    /\ pc = "create"
    /\ pc' = "annotate"
    /\ tableExists' = TRUE
    /\ tableEdge' = edge
    /\ UNCHANGED <<error, annotated, annotations, docs>>
    /\ UNCHANGED <<elsewhere, args, run, rowsRead, new_row, processed_rows, putCalls>>

\* Lines 67-71: the table is created first; an exception ends the call.
CreateTable ==
    /\ pc = "create"
    /\ IF NameTaken
       THEN /\ pc' = "failed"
            /\ error' = "IntegrityError"
            /\ UNCHANGED store
       ELSE /\ pc' = "annotate"
            /\ tableExists' = TRUE
            /\ tableEdge' = edge
            /\ UNCHANGED <<error, annotated, annotations, docs>>
    /\ UNCHANGED <<elsewhere, args, run, rowsRead, new_row, processed_rows, putCalls>>

\* Lines 73-91: TableTypeAnnotation.objects.bulk_create.
CreateAnnotations ==
    /\ pc = "annotate"
    /\ annotations' = annotations \o type_annotation_cols
    /\ annotated' = annotated + 1
    /\ pc' = "rows"
    /\ UNCHANGED <<elsewhere, args, run, error, rowsRead, new_row, processed_rows, putCalls,
                   tableExists, tableEdge, docs>>

\* A store that may refuse a write of no document.
WriteOutcomes_EmptyMayFail(rows) == BOOLEAN

\* The outcomes of a bulk write: a write of documents succeeds or fails; a
\* write of no document changes nothing and is no error.
WriteOutcomes(rows) == IF rows = <<>> THEN {TRUE} ELSE BOOLEAN

\* table.put_rows(rows): one bulk write.  A write that fails raises and
\* leaves the table as it was.
put_rows(rows, ok) ==
    /\ putCalls' = Append(putCalls, [rows |-> rows, ok |-> ok])
    /\ docs' = IF ok THEN docs \o rows ELSE docs
    /\ error' = IF ok THEN error ELSE "StoreError"

\* A loop that flushes once the buffer holds more than the batch size.
NextRow_FlushAbove ==
    /\ pc = "rows"
    /\ Len(rowsRead) < SourceLen
    /\ \E row \in SourceRows :
          LET out == process_row(row, column_types, primary_key, edge_source, edge_target,
                                 node_table_name)
          IN  /\ rowsRead' = Append(rowsRead, row)
              /\ new_row' = out
              /\ processed_rows' = IF out.kind = "doc" THEN Append(processed_rows, out.doc)
                                   ELSE processed_rows
              /\ error' = IF out.kind = "raise" THEN out.exc ELSE error
              /\ pc' = IF out.kind = "raise" THEN "failed"
                       ELSE IF Len(processed_rows') > BatchSize THEN "flush"
                       ELSE "rows"
    /\ UNCHANGED <<elsewhere, args, run, putCalls, store>>

\* Lines 95-101: one turn of the loop, up to the test of the batch size.
NextRow ==
    /\ pc = "rows"
    /\ Len(rowsRead) < SourceLen
    /\ \E row \in SourceRows :
          LET out == process_row(row, column_types, primary_key, edge_source, edge_target,
                                 node_table_name)
          IN  /\ rowsRead' = Append(rowsRead, row)
              /\ new_row' = out
              /\ processed_rows' = IF out.kind = "doc" THEN Append(processed_rows, out.doc)
                                   ELSE processed_rows
              /\ error' = IF out.kind = "raise" THEN out.exc ELSE error
              /\ pc' = IF out.kind = "raise" THEN "failed"
                       ELSE IF Len(processed_rows') = BatchSize THEN "flush"
                       ELSE "rows"
    /\ UNCHANGED <<elsewhere, args, run, putCalls, store>>

\* A flush that leaves the batch in the buffer.
FlushBatch_KeepsBuffer ==
    /\ pc = "flush"
    /\ \E ok \in WriteOutcomes(processed_rows) :
          /\ put_rows(processed_rows, ok)
          /\ processed_rows' = processed_rows
          /\ pc' = IF ok THEN "rows" ELSE "failed"
    /\ UNCHANGED <<elsewhere, args, run, rowsRead, new_row, tableExists, tableEdge, annotated, annotations>>

\* A flush that swallows the failure of the write and goes on.
FlushBatch_IgnoresFailure ==
    /\ pc = "flush"
    /\ \E ok \in WriteOutcomes(processed_rows) :
          /\ put_rows(processed_rows, ok)
          /\ processed_rows' = <<>>
          /\ pc' = "rows"
    /\ UNCHANGED <<elsewhere, args, run, rowsRead, new_row, tableExists, tableEdge, annotated, annotations>>

\* Lines 104-106: the batch is full.
FlushBatch ==
    /\ pc = "flush"
    /\ \E ok \in WriteOutcomes(processed_rows) :
          /\ put_rows(processed_rows, ok)
          /\ processed_rows' = IF ok THEN <<>> ELSE processed_rows
          /\ pc' = IF ok THEN "rows" ELSE "failed"
    /\ UNCHANGED <<elsewhere, args, run, rowsRead, new_row, tableExists, tableEdge, annotated, annotations>>

\* Line 109: row_data is exhausted; the rows left are written.
FinalFlush ==
    /\ pc = "rows"
    /\ \E ok \in WriteOutcomes(processed_rows) :
          /\ put_rows(processed_rows, ok)
          /\ pc' = IF ok THEN "done" ELSE "failed"
    /\ UNCHANGED <<elsewhere, args, run, rowsRead, new_row, processed_rows, tableExists, tableEdge,
                   annotated, annotations>>

\* The caller runs process_single_table again with the same arguments, on
\* the store the first call left.
RunAgain ==
    /\ run = 1
    /\ pc \in {"done", "failed"}
    /\ run' = 2
    /\ pc' = "create"
    /\ error' = "none"
    /\ rowsRead' = <<>>
    /\ new_row' = Rejected
    /\ processed_rows' = <<>>
    /\ putCalls' = <<>>
    /\ UNCHANGED <<elsewhere, args, store>>

Next == ValidateColumns \/ CreateTable \/ CreateAnnotations \/ NextRow \/ FlushBatch \/ FinalFlush \/ RunAgain

Spec == Init /\ [][Next]_vars

\* A source of one row never fills a batch of two or more.
NextSingle == ValidateColumns \/ CreateTable \/ CreateAnnotations \/ NextRow \/ FinalFlush \/ RunAgain

SpecRow == InitRow /\ [][NextSingle]_vars

(***************************************************************************)
(* What the claims speak of.                                               *)
(***************************************************************************)
\* The row holds a non-empty value in the column (no column: no value).
HasValue(row, col) == col \in DOMAIN row /\ row[col].t = "str" /\ Len(row[col].v) > 0

\* The row has neither a primary key nor both endpoints.
LacksKeyAndEndpoints(row) ==
    ~HasValue(row, primary_key) /\ ~(HasValue(row, edge_source) /\ HasValue(row, edge_target))

LastRow == rowsRead[Len(rowsRead)]

RECURSIVE Flatten(_)
Flatten(batches) == IF batches = <<>> THEN <<>> ELSE Head(batches) \o Flatten(Tail(batches))

\* The documents handed to put_rows by this call, in call order.
Offered == Flatten([i \in 1..Len(putCalls) |-> putCalls[i].rows])

NodeDeclaration == edge_source = NoneKey \/ edge_target = NoneKey

(***************************************************************************)
(* C1.  A row that has neither a non-empty value in the primary key column *)
(* nor non-empty values in both edge columns gets the rejected marker from *)
(* process_row, and no put_rows call carries it: the calls of a run carry  *)
(* no more documents than rows with a key or both endpoints were read.     *)
(***************************************************************************)
C1_AcceptanceGate ==
    /\ (rowsRead # <<>> /\ LacksKeyAndEndpoints(LastRow)) =>
          (new_row = Rejected /\ (Len(rowsRead) = 1 => Offered = <<>> /\ processed_rows = <<>>))
    /\ Len(Offered) <= Cardinality({i \in 1..Len(rowsRead) : ~LacksKeyAndEndpoints(rowsRead[i])})

\* A row with a source and no target has been dropped and the run is over.
C1_Witness ==
    /\ pc = "done"
    /\ Len(rowsRead) = 1
    /\ LacksKeyAndEndpoints(LastRow)
    /\ edge_target # NoneKey
    /\ HasValue(LastRow, edge_source)
    /\ Len(putCalls) = 1

(***************************************************************************)
(* C2.  For a node table (edge = false) whose column types declare no      *)
(* primary key and no edge column, a call that returns has stored every    *)
(* row of the source, in order, with no _key of its own.                   *)
(***************************************************************************)
C2_KeylessRowsStored ==
    (/\ run = 1
     /\ pc = "done"
     /\ ~edge
     /\ primary_key = NoneKey /\ edge_source = NoneKey /\ edge_target = NoneKey)
    => /\ Len(docs) = Len(rowsRead)
       /\ \A i \in 1..Len(docs) : "_key" \notin DOMAIN docs[i]

\* The type column_types declares for a column, "none" when it declares none.
DeclaredType(col) ==
    IF \E i \in 1..Len(column_types) : column_types[i].col = col
    THEN column_types[CHOOSE i \in 1..Len(column_types) : column_types[i].col = col].type
    ELSE "none"

\* The cell of a typed column can be coerced.
Coercible(type, cell) ==
    type \in {"boolean", "number", "date"} /\ cell # None /\ process_func(type, cell.v).exc = "none"

\* A cell as the claims have it stored: coerced per its declared type, or as
\* it was when it cannot be coerced.
StoredCell(row, col) ==
    IF Coercible(DeclaredType(col), row[col]) THEN process_func(DeclaredType(col), row[col].v).val
    ELSE row[col]

HasKey(row) == HasValue(row, primary_key)

\* The document of a row of a node table that declares a primary key.
NodeDocument(row) ==
    [k \in ((DOMAIN row) \ {primary_key}) \cup {"_key"} |->
        IF k = "_key" THEN PyStr(row[primary_key].v) ELSE StoredCell(row, k)]

NodeDocuments(rows) ==
    LET keyed == SelectSeq(rows, HasKey)
    IN  [i \in 1..Len(keyed) |-> NodeDocument(keyed[i])]

KeyedNodeTable == ~edge /\ primary_key # NoneKey /\ NodeDeclaration

(***************************************************************************)
(* C3.  For a node table with a declared primary key column, when the call *)
(* returns the table holds, in source order, one document per row read     *)
(* whose key cell is not empty: _key is the key cell, the key column is    *)
(* gone, and every other column holds its cell coerced per its declared    *)
(* type, or the cell itself when it cannot be coerced.                     *)
(***************************************************************************)
C3_NodeDocuments ==
    (run = 1 /\ pc = "done" /\ KeyedNodeTable) => docs = NodeDocuments(rowsRead)

\* The three rows of the end-to-end scenario: a number coerced, a row
\* without key dropped, a cell that is no number kept.
C3_Witness ==
    /\ run = 1 /\ pc = "done" /\ KeyedNodeTable
    /\ DeclaredType("score") = "number"
    /\ rowsRead = <<RowA, RowB, RowC>>
    /\ Len(docs) = 2
    /\ docs[1]["_key"] = PyStr(<<"1">>) /\ docs[1]["score"] = PyInt(<<"1", "0">>)
    /\ docs[2]["_key"] = PyStr(<<"3">>) /\ docs[2]["score"] = PyStr(<<"x">>)
    /\ "id" \notin DOMAIN docs[1]

EdgeDeclaration == edge_source # NoneKey /\ edge_target # NoneKey

\* process_row has returned for the last row read of a table with both edge
\* columns declared.
EdgeRowReturned == rowsRead # <<>> /\ EdgeDeclaration /\ new_row.kind # "raise"

\* The row's cell in the column is a string without separator.
Bare(row, col) == col \in DOMAIN row /\ row[col].t = "str" /\ Find(row[col].v, "/") = 0

\* The row's cell in the column names a table, and another one than name.
OfOtherTable(row, col, name) ==
    /\ col \in DOMAIN row /\ row[col].t = "str" /\ Find(row[col].v, "/") > 0
    /\ SubSeq(row[col].v, 1, Find(row[col].v, "/") - 1) # name.v

(***************************************************************************)
(* C4.  Whenever process_row returns for an edge row (both edge columns    *)
(* declared) in which an endpoint has no '/': with no node table name the  *)
(* row is rejected; with a node table name D, the endpoint of a document   *)
(* returned is exactly D, '/', the original value.                         *)
(***************************************************************************)
C4_EndpointQualification ==
    EdgeRowReturned =>
        /\ (~Truthy(node_table_name) /\ (Bare(LastRow, edge_source) \/ Bare(LastRow, edge_target)))
              => new_row = Rejected
        /\ (Truthy(node_table_name) /\ new_row.kind = "doc") =>
              /\ Bare(LastRow, edge_source) =>
                    new_row.doc["_from"] = PyStr(node_table_name.v \o <<"/">> \o LastRow[edge_source].v)
              /\ Bare(LastRow, edge_target) =>
                    new_row.doc["_to"] = PyStr(node_table_name.v \o <<"/">> \o LastRow[edge_target].v)

\* Both endpoints came without table and went out under the node table a.
C4_Witness ==
    /\ EdgeRowReturned /\ Truthy(node_table_name) /\ new_row.kind = "doc"
    /\ Bare(LastRow, edge_source) /\ Bare(LastRow, edge_target)
    /\ new_row.doc["_from"] = PyStr(<<"a", "/", "1">>)
    /\ new_row.doc["_to"] = PyStr(<<"a", "/", "2">>)
    /\ pc = "done" /\ Len(docs) = 1

(***************************************************************************)
(* C5.  Whenever process_row returns for an edge row in which a qualified  *)
(* endpoint names another table than the node table name supplied, it      *)
(* returns the rejected marker; and with a node table name supplied, no    *)
(* document handed to put_rows or stored has an endpoint of another table. *)
(***************************************************************************)
C5_OtherTableRejected ==
    /\ (EdgeRowReturned /\ Truthy(node_table_name)
          /\ (OfOtherTable(LastRow, edge_source, node_table_name)
                \/ OfOtherTable(LastRow, edge_target, node_table_name)))
       => new_row = Rejected
    /\ (EdgeDeclaration /\ Truthy(node_table_name)) =>
          \A d \in {Offered[i] : i \in 1..Len(Offered)} \cup {docs[i] : i \in 1..Len(docs)} :
              /\ SubSeq(d["_from"].v, 1, Len(node_table_name.v) + 1) = node_table_name.v \o <<"/">>
              /\ SubSeq(d["_to"].v, 1, Len(node_table_name.v) + 1) = node_table_name.v \o <<"/">>

\* A row with a key, a source of table b and a target of table a was
\* rejected under the node table a.
C5_Witness ==
    /\ EdgeRowReturned /\ Truthy(node_table_name)
    /\ HasValue(LastRow, primary_key)
    /\ OfOtherTable(LastRow, edge_source, node_table_name)
    /\ ~OfOtherTable(LastRow, edge_target, node_table_name) /\ HasValue(LastRow, edge_target)
    /\ new_row = Rejected
    /\ pc = "done"

\* column_types with every type that has a processor replaced by label.
Untyped(cols) ==
    [i \in 1..Len(cols) |-> IF cols[i].type \in processor_dict THEN Col(cols[i].col, "label") ELSE cols[i]]

(***************************************************************************)
(* C6.  A coercion failure never rejects a row: process_row accepts or     *)
(* rejects a row as it would with no column typed, and in a document it    *)
(* returns, a non-null typed cell that cannot be coerced is the original   *)
(* string.                                                                 *)
(***************************************************************************)
C6_CoercionNeverRejects ==
    rowsRead # <<>> =>
        /\ new_row.kind = process_row(LastRow, Untyped(column_types), primary_key, edge_source,
                                      edge_target, node_table_name).kind
        /\ new_row.kind = "doc" =>
              \A c \in DOMAIN LastRow :
                  (DeclaredType(c) \in processor_dict /\ LastRow[c] # None
                      /\ ~Coercible(DeclaredType(c), LastRow[c]))
                  => new_row.doc[c] = LastRow[c]

IsAccepted(row) ==
    process_row(row, column_types, primary_key, edge_source, edge_target, node_table_name).kind = "doc"

\* The documents of the rows process_row accepts, in the order of the rows.
AcceptedDocuments(rows) ==
    LET accepted == SelectSeq(rows, IsAccepted)
    IN  [i \in 1..Len(accepted) |->
            process_row(accepted[i], column_types, primary_key, edge_source, edge_target,
                        node_table_name).doc]

IsPrefix(s, t) == Len(s) <= Len(t) /\ SubSeq(t, 1, Len(s)) = s

\* The put_rows calls of this call that carry a document.
NonEmptyCalls == {i \in 1..Len(putCalls) : putCalls[i].rows # <<>>}

(***************************************************************************)
(* C7.  When the call returns after N accepted rows, the document lists of *)
(* its put_rows calls, concatenated in call order, are the accepted        *)
(* documents in source order, none lost and none twice; every call that    *)
(* another follows carries BatchSize documents, and ceil(N / BatchSize)    *)
(* calls carry a document.                                                 *)
(***************************************************************************)
C7_Batching ==
    (run = 1 /\ pc = "done") =>
        LET N == Len(AcceptedDocuments(rowsRead))
        IN  /\ Offered = AcceptedDocuments(rowsRead)
            /\ docs = Offered
            /\ \A i \in 1..(Len(putCalls) - 1) : Len(putCalls[i].rows) = BatchSize
            /\ Cardinality(NonEmptyCalls) = (N + BatchSize - 1) \div BatchSize

\* Two full batches and a rest: 2 * BatchSize < N < 3 * BatchSize.
C7_Witness ==
    /\ run = 1 /\ pc = "done"
    /\ Len(putCalls) = 3
    /\ Len(putCalls[1].rows) = BatchSize /\ Len(putCalls[2].rows) = BatchSize
    /\ Len(putCalls[3].rows) > 0 /\ Len(putCalls[3].rows) < BatchSize
    /\ Len(docs) = 2 * BatchSize + Len(putCalls[3].rows)

(***************************************************************************)
(* C8.  Setup happens before data: when a put_rows call has been issued,   *)
(* or the table holds a document, the table has been created and its type  *)
(* annotations have been written.                                          *)
(***************************************************************************)
C8_SetupBeforeData ==
    (putCalls # <<>> \/ docs # <<>> \/ processed_rows # <<>> \/ rowsRead # <<>>)
    => (tableExists /\ annotated >= 1 /\ annotations = type_annotation_cols)

\* In the middle of an ingestion: a batch is stored and more rows are read.
C8_Witness ==
    /\ run = 1 /\ pc = "rows"
    /\ Len(docs) = BatchSize
    /\ Len(putCalls) = 1
    /\ processed_rows # <<>>
    /\ annotated = 1

(***************************************************************************)
(* C9.  A second call with a table name that exists ends at the creation   *)
(* of the table with a conflict: it writes no annotation, reads no row,    *)
(* issues no put_rows, and leaves the annotations and the documents of the *)
(* table as they were.                                                     *)
(***************************************************************************)
C9_SecondRunConflicts ==
    [][run' = 2 =>
          /\ store' = store
          /\ rowsRead' = <<>>
          /\ putCalls' = <<>>
          /\ processed_rows' = <<>>
          /\ pc' \in {"create", "failed"}
          /\ (pc' = "failed" => error' = "IntegrityError")
          /\ (run = 2 /\ pc = "create" => pc' = "failed")]_vars

\* The second call has failed on a table that holds documents.
C9_Witness ==
    /\ run = 2 /\ pc = "failed" /\ error = "IntegrityError"
    /\ tableExists /\ docs # <<>> /\ annotated = 1

\* The documents of the put_rows calls that succeeded.
Committed == Flatten([i \in 1..Len(putCalls) |-> IF putCalls[i].ok THEN putCalls[i].rows ELSE <<>>])

(***************************************************************************)
(* C10.  A put_rows call that fails ends the call at once: after it no row *)
(* is read, no put_rows is issued (the batch is not tried again) and the   *)
(* table does not change; the table holds the batches written before, a    *)
(* prefix of the accepted documents.                                       *)
(***************************************************************************)
C10_StoreFailureAborts ==
    [][/\ (putCalls' # putCalls /\ putCalls' # <<>> /\ ~putCalls'[Len(putCalls')].ok)
            => (pc' = "failed" /\ error' = "StoreError" /\ docs' = docs)
       /\ (error = "StoreError" /\ run' = run)
            => UNCHANGED <<pc, rowsRead, putCalls, processed_rows, docs>>
       /\ (run' = 1 /\ error' = "StoreError")
            => (docs' = Committed' /\ IsPrefix(docs', AcceptedDocuments(rowsRead')))]_vars

\* The second batch failed; the first one is in the table.
C10_Witness ==
    /\ run = 1 /\ pc = "failed" /\ error = "StoreError"
    /\ Len(putCalls) = 2
    /\ putCalls[1].ok /\ ~putCalls[2].ok
    /\ docs = putCalls[1].rows /\ Len(docs) = BatchSize
    /\ Len(rowsRead) < MaxRows

\* The errors of the store: a table name that is taken, a write that fails.
StoreErrors == {"IntegrityError", "StoreError"}

(***************************************************************************)
(* C11.  Row-level problems never raise: process_single_table ends with an *)
(* exception only when the creation of the table or a write to the store   *)
(* fails, and process_row returns a document or None for every row.        *)
(***************************************************************************)
C11_RowsNeverRaise ==
    /\ error \in {"none"} \cup StoreErrors
    /\ new_row.kind # "raise"

(***************************************************************************)
(* The Upload record and its two helpers, utils.py:30-42.                  *)
(***************************************************************************)
\* Most messages one upload is failed with.
MaxMessages == 4

\* A Python list of messages.
PyList(items) == [t |-> "list", v |-> items]

\* The messages a caller passes.
Messages == {"m1", "m2", "m3"}

\* No call of process_single_table is under way.
IdleIngest ==
    /\ column_types = <<>>
    /\ edge = FALSE
    /\ node_table_name = None
    /\ run = 1
    /\ pc = "idle"
    /\ error = "none"
    /\ rowsRead = <<>>
    /\ new_row = Rejected
    /\ processed_rows = <<>>
    /\ putCalls = <<>>
    /\ tableExists = FALSE
    /\ tableEdge = FALSE
    /\ annotated = 0
    /\ annotations = <<>>
    /\ docs = <<>>

ingestVars == <<column_types, edge, node_table_name, run, pc, error, rowsRead, new_row,
                processed_rows, putCalls, store>>

\* A helper that replaces the list by the new message.
fail_upload_with_message_Overwrites(message) ==
    upload' = [status |-> "FAILED", error_messages |-> PyList(<<message>>)]

\* Lines 30-37: the status is set, the message appended, the upload saved.
fail_upload_with_message(message) ==
    upload' = [status |-> "FAILED",
               error_messages |-> IF upload.error_messages = None
                                  THEN PyList(<<message>>)
                                  ELSE PyList(Append(upload.error_messages.v, message))]

\* A helper that leaves a failed upload failed.
complete_upload_KeepsFailed ==
    upload' = [upload EXCEPT !.status = IF upload.status = "FAILED" THEN "FAILED" ELSE "FINISHED"]

\* A helper that resets the messages to an empty list.
complete_upload_EmptyList ==
    upload' = [status |-> "FINISHED", error_messages |-> PyList(<<>>)]

\* Lines 40-42: the status is set, the upload saved.
complete_upload ==
    upload' = [upload EXCEPT !.status = "FINISHED"]

\* A caller fails the upload with a message.
CallFail ==
    /\ mode \in {"calls", "job"}
    /\ Len(passed) < MaxMessages
    /\ \E message \in Messages :
          /\ fail_upload_with_message(message)
          /\ passed' = Append(passed, message)
    /\ last_call' = "fail_upload_with_message"
    /\ UNCHANGED <<mode, ingestVars, funcVars, authVars>>

\* A caller completes the upload.
CallComplete ==
    /\ mode \in {"calls", "job"}
    /\ complete_upload
    /\ last_call' = "complete_upload"
    /\ UNCHANGED <<mode, ingestVars, funcVars, authVars, passed>>

InitCalls == mode = "calls" /\ IdleIngest /\ IdleUpload /\ IdleFunc /\ IdleAuth

\* The helpers called in any order, any number of times.
NextCalls == CallFail \/ CallComplete

SpecCalls == InitCalls /\ [][NextCalls]_vars

(***************************************************************************)
(* C12.  After any sequence of calls the status is the one the last call   *)
(* sets: FINISHED after complete_upload, FAILED after                      *)
(* fail_upload_with_message, whatever it was before, so that a terminal    *)
(* status is not protected by the helpers; no call returns the status to   *)
(* PENDING.                                                                *)
(***************************************************************************)
C12_LastCallDecides ==
    /\ [](/\ last_call = "none" => upload.status = "PENDING"
          /\ last_call = "complete_upload" => upload.status = "FINISHED"
          /\ last_call = "fail_upload_with_message" => upload.status = "FAILED")
    /\ [][upload.status # "PENDING" => upload'.status # "PENDING"]_vars

\* An upload that was failed is now finished.
C12_Witness ==
    /\ upload.status = "FINISHED"
    /\ passed # <<>>
    /\ last_call = "complete_upload"

\* C12 as stated: a status that is FINISHED or FAILED never changes.
C12_TerminalImmutable ==
    [][upload.status \in {"FINISHED", "FAILED"} => upload'.status = upload.status]_vars

(***************************************************************************)
(* C13.  The message list is append-only: a call of                        *)
(* fail_upload_with_message with m sets the status FAILED and makes the    *)
(* list the previous list (empty if it was null) followed by m; the list   *)
(* holds every message passed so far in call order, and a FAILED upload    *)
(* has at least one message.                                               *)
(***************************************************************************)
C13_MessagesAppendOnly ==
    /\ [](/\ passed = <<>> => upload.error_messages = None
          /\ passed # <<>> => upload.error_messages = PyList(passed)
          /\ upload.status = "FAILED" =>
                (upload.error_messages # None /\ Len(upload.error_messages.v) >= 1))
    /\ [][passed' # passed =>
            /\ upload'.status = "FAILED"
            /\ upload'.error_messages =
                  PyList((IF upload.error_messages = None THEN <<>> ELSE upload.error_messages.v)
                         \o <<passed'[Len(passed')]>>)]_vars

\* Three messages were passed, with a completion in between or not.
C13_Witness ==
    /\ upload.status = "FAILED"
    /\ Len(passed) = 3
    /\ upload.error_messages = PyList(passed)
    /\ passed[1] # passed[2]

(***************************************************************************)
(* The upload task as the job it reports on: a job that is pending either  *)
(* completes, with no fatal error, or fails; a job that has failed may be  *)
(* failed again by another failure point, and is never completed.          *)
(***************************************************************************)
\* The job has met no fatal error.
NoFatalError == upload.status = "PENDING"

JobFails ==
    /\ mode = "job"
    /\ upload.status \in {"PENDING", "FAILED"}
    /\ CallFail

JobCompletes ==
    /\ mode = "job"
    /\ NoFatalError
    /\ CallComplete

InitJob == mode = "job" /\ IdleIngest /\ IdleUpload /\ IdleFunc /\ IdleAuth

NextJob == JobFails \/ JobCompletes

SpecJob == InitJob /\ [][NextJob]_vars

(***************************************************************************)
(* C14.  An upload is created with status PENDING and error_messages null, *)
(* and whenever its status is FINISHED its error_messages is still null.   *)
(***************************************************************************)
C14_FinishedWithoutMessages ==
    /\ last_call = "none" => (upload.status = "PENDING" /\ upload.error_messages = None)
    /\ upload.status = "FINISHED" => upload.error_messages = None

\* A job has completed.
C14_Witness ==
    /\ upload.status = "FINISHED"
    /\ last_call = "complete_upload"
    /\ upload.error_messages = None

(***************************************************************************)
(* A call of one processor function of processor_dict on one entry.        *)
(***************************************************************************)
BoolEntries ==
    {<<"0">>, <<"1">>, <<"0", "1">>, <<"t", "r", "u", "e">>, <<"f", "a", "l", "s", "e">>,
     <<"T", "r", "u", "e">>, <<"y", "e", "s">>, <<"Y", "E", "S">>, <<"Y", "e", "s">>,
     <<"o", "n">>, <<"O", "N">>, <<"n", "o">>, <<"N", "o">>, <<"o", "f", "f">>,
     <<"O", "F", "F">>, <<"m", "a", "y", "b", "e">>, <<>>}

NumberEntries ==
    {<<"4", "2">>, <<"4", "2", ".", "5">>, <<"0", "0", "7">>, <<"1", ".", "5">>, <<"1", ".">>,
     <<"a", "b", "c">>, <<"i", "n", "f">>, <<"n", "a", "n">>, <<"I", "N", "F">>}

DateEntries ==
    {<<"2", "0", "2", "0", "-", "0", "1", "-", "0", "2">>,
     <<"2", "0", "2", "0", "-", "0", "1", "-", "0", "2", "T", "0", "3", ":", "0", "4", ":", "0", "5">>,
     <<"1", "9", "7", "0", "-", "0", "1", "-", "0", "1", "T", "0", "0", ":", "0", "0", ":", "4", "2">>}

FuncEntries == BoolEntries \cup NumberEntries \cup DateEntries

InitFunc ==
    /\ mode = "func"
    /\ IdleIngest /\ IdleUpload /\ IdleAuth
    /\ func_type \in processor_dict
    /\ func_entry \in FuncEntries
    /\ func_result = NotCalled

\* process_single_table.py:48-51: the function of the type is applied.
CallProcessor ==
    /\ mode = "func"
    /\ func_result = NotCalled
    /\ func_result' = process_func(func_type, func_entry)
    /\ UNCHANGED <<mode, ingestVars, uploadVars, authVars, func_type, func_entry>>

NextFunc == CallProcessor

SpecFunc == InitFunc /\ [][NextFunc]_vars

\* func has been called on an entry.
Called(type) == func_type = type /\ func_result # NotCalled

TrueWords == {<<"1">>, <<"t", "r", "u", "e">>, <<"y", "e", "s">>, <<"o", "n">>}
FalseWords == {<<"0">>, <<"f", "a", "l", "s", "e">>, <<"n", "o">>, <<"o", "f", "f">>}

(***************************************************************************)
(* C15.  str_to_bool compares the entry as it is written: "1", "true",     *)
(* "yes" and "on" give true, "0", "false", "no" and "off" give false, and  *)
(* every other string fails with ValueError, a word in another letter case *)
(* ("YES", "On", "OFF", "True") included.                                  *)
(***************************************************************************)
C15_BoolExactWords ==
    Called("boolean") =>
        /\ func_entry \in TrueWords => func_result = Returns(PyBool(TRUE))
        /\ func_entry \in FalseWords => func_result = Returns(PyBool(FALSE))
        /\ func_entry \notin TrueWords \cup FalseWords => func_result = Raises("ValueError")

\* An upper-case YES has failed.
C15_Witness ==
    /\ Called("boolean")
    /\ func_entry = <<"Y", "E", "S">>
    /\ func_result = Raises("ValueError")

\* C15 as stated: yes and on in any letter case give true, no and off false.
C15_BoolAnyCase ==
    Called("boolean") =>
        /\ Lower(func_entry) \in {<<"y", "e", "s">>, <<"o", "n">>}
              => func_result = Returns(PyBool(TRUE))
        /\ Lower(func_entry) \in {<<"n", "o">>, <<"o", "f", "f">>}
              => func_result = Returns(PyBool(FALSE))

\* A decimal integer literal, and a float literal with no exponent.
IsIntegerLiteral(s) == IsDigits(s)
IsFloatLiteral(s) ==
    \/ Lower(s) \in {<<"i", "n", "f">>, <<"n", "a", "n">>}
    \/ /\ Count(s, ".") <= 1
       /\ \A i \in 1..Len(s) : s[i] \in DigitChars \cup {"."}
       /\ \E i \in 1..Len(s) : s[i] \in DigitChars

(***************************************************************************)
(* C16.  str_to_number tries int first and float only if int fails: an     *)
(* integer literal gives an int equal to it, any other float literal gives *)
(* a float, and a string that is neither fails with ValueError.            *)
(***************************************************************************)
C16_NumberIntThenFloat ==
    Called("number") =>
        /\ IsIntegerLiteral(func_entry) =>
              /\ func_result.exc = "none"
              /\ func_result.val.t = "int"
              /\ NatOf(func_result.val.v) = NatOf(func_entry)
        /\ (~IsIntegerLiteral(func_entry) /\ IsFloatLiteral(func_entry)) =>
              (func_result.exc = "none" /\ func_result.val.t = "float")
        /\ (~IsIntegerLiteral(func_entry) /\ ~IsFloatLiteral(func_entry)) =>
              func_result = Raises("ValueError")

\* 42 has become the int 42.
C16_Witness ==
    /\ Called("number")
    /\ func_entry = <<"4", "2">>
    /\ func_result = Returns(PyInt(<<"4", "2">>))

\* YYYY-MM-DDThh:mm:ss, with six digits of microseconds or none.
IsIso8601(s) ==
    \/ IsIsoDateTime(s)
    \/ /\ Len(s) = 26
       /\ IsIsoDateTime(SubSeq(s, 1, 19))
       /\ s[20] = "."
       /\ \A i \in 21..26 : s[i] \in DigitChars

\* The first step of str_to_datestr: the entry as a Unix timestamp.
AsTimestamp(e) ==
    IF py_float(e).exc = "none" THEN fromtimestamp_isoformat(py_float(e).val) ELSE py_float(e)

(***************************************************************************)
(* C17.  str_to_datestr is a cascade of two steps: the result of the       *)
(* timestamp reading is the result when that reading succeeds, the date    *)
(* parser is used only when it fails with ValueError, the function fails   *)
(* with ValueError only if both steps do, and every value returned is an   *)
(* ISO-8601 serialisation, equal to the entry only when the entry is that  *)
(* serialisation already.                                                  *)
(***************************************************************************)
C17_DateCascade ==
    Called("date") =>
        /\ AsTimestamp(func_entry).exc = "none" => func_result = AsTimestamp(func_entry)
        /\ AsTimestamp(func_entry).exc = "ValueError"
              => func_result = dateutil_parse_isoformat(func_entry)
        /\ func_result.exc = "ValueError" =>
              /\ AsTimestamp(func_entry).exc = "ValueError"
              /\ dateutil_parse_isoformat(func_entry).exc = "ValueError"
        /\ func_result.exc = "none" =>
              /\ func_result.val.t = "str"
              /\ IsIso8601(func_result.val.v)
              /\ func_result.val.v = func_entry => IsIso8601(func_entry)

\* A date that is no timestamp has been parsed and serialised.
C17_Witness ==
    /\ Called("date")
    /\ func_entry = <<"2", "0", "2", "0", "-", "0", "1", "-", "0", "2">>
    /\ func_result.exc = "none"
    /\ func_result.val.v = func_entry \o <<"T", "0", "0", ":", "0", "0", ":", "0", "0">>

(***************************************************************************)
(* C18.  An invalid declared column type is fatal at setup: the request is *)
(* answered 400 with the offending column named, and no table is created,  *)
(* no annotation written, no row processed and no document written; the   *)
(* column is not taken as an untyped one.                                  *)
(***************************************************************************)
C18_InvalidTypeRejected ==
    InvalidColumns(column_types) # {} =>
        /\ pc \in {"request", "rejected"}
        /\ ~tableExists /\ annotated = 0 /\ annotations = <<>>
        /\ rowsRead = <<>> /\ processed_rows = <<>> /\ putCalls = <<>> /\ docs = <<>>
        /\ pc = "rejected" => (response = 400 /\ invalid_columns = InvalidColumns(column_types))

\* A request with an invalid type has been answered.
C18_Witness ==
    /\ pc = "rejected"
    /\ response = 400
    /\ invalid_columns = {"score"}
    /\ primary_key = "id"

(***************************************************************************)
(* The permission decorators of multinet/auth/decorators.py, around the    *)
(* operations of the endpoints they guard.                                 *)
(***************************************************************************)
\* Most requests of one behaviour.
MaxRequests == 2

\* WorkspaceRoleChoice, from the lowest role to the highest.
WorkspaceRoleChoice == <<"reader", "writer", "maintainer">>

Roles == {WorkspaceRoleChoice[i] : i \in 1..Len(WorkspaceRoleChoice)}

\* The order of user_permission.role >= minimum_permission.
Rank(role) == CHOOSE i \in 1..Len(WorkspaceRoleChoice) : WorkspaceRoleChoice[i] = role

\* The guarded endpoints: an operation on the workspace or on its networks
\* behind require_workspace_permission with a minimum permission, and the
\* deletion of the workspace behind require_workspace_ownership.
Endpoints ==
    {[decorator |-> "require_workspace_permission", minimum_permission |-> m, operation |-> o] :
        m \in Roles, o \in {"retrieve", "create_network", "delete_network"}}
    \cup {[decorator |-> "require_workspace_ownership", minimum_permission |-> NoRole,
           operation |-> "delete_workspace"]}

\* The workspaces a request can name: none of that name, or one with its
\* database and a network, private or public.
Workspaces ==
    {NoWorkspace} \cup
    {[exists |-> TRUE, public |-> p, database |-> TRUE, networks |-> {"n1"}] : p \in BOOLEAN}

Users == {[owner |-> o, role |-> r] : o \in BOOLEAN, r \in Roles \cup {NoRole}}

\* A decorator that answers 403 to every user without a role.
require_workspace_permission_NoRoleForbidden(minimum_permission) ==
    IF ~workspace.exists THEN "Http404"
    ELSE IF (workspace.public /\ minimum_permission = "reader") \/ user.owner THEN "func"
    ELSE IF user.role = NoRole THEN "HttpResponseForbidden"
    ELSE IF Rank(user.role) >= Rank(minimum_permission) THEN "func"
    ELSE "HttpResponseForbidden"

\* A decorator that lets every user with a role pass.
require_workspace_permission_AnyRole(minimum_permission) ==
    IF ~workspace.exists THEN "Http404"
    ELSE IF (workspace.public /\ minimum_permission = "reader") \/ user.owner THEN "func"
    ELSE IF user.role = NoRole
    THEN (IF workspace.public THEN "HttpResponseForbidden" ELSE "HttpResponseNotFound")
    ELSE "func"

\* A decorator that asks a role of every user who is not the owner.
require_workspace_permission_IgnoresPublic(minimum_permission) ==
    IF ~workspace.exists THEN "Http404"
    ELSE IF user.owner THEN "func"
    ELSE IF user.role = NoRole
    THEN (IF workspace.public THEN "HttpResponseForbidden" ELSE "HttpResponseNotFound")
    ELSE IF Rank(user.role) >= Rank(minimum_permission) THEN "func"
    ELSE "HttpResponseForbidden"

\* Lines 44-60: what wrapper does with a request; get_object_or_404 of line
\* 26 raises Http404 for a name no workspace has.
require_workspace_permission(minimum_permission) ==
    IF ~workspace.exists THEN "Http404"
    ELSE IF (workspace.public /\ minimum_permission = "reader") \/ user.owner THEN "func"
    ELSE IF user.role = NoRole
    THEN (IF workspace.public THEN "HttpResponseForbidden" ELSE "HttpResponseNotFound")
    ELSE IF Rank(user.role) >= Rank(minimum_permission) THEN "func"
    ELSE "HttpResponseForbidden"

\* A decorator that lets a maintainer pass as the owner does.
require_workspace_ownership_MaintainerPasses ==
    IF ~workspace.exists THEN "Http404"
    ELSE IF user.owner \/ user.role = "maintainer" THEN "func"
    ELSE IF user.role = NoRole THEN "HttpResponseNotFound"
    ELSE "HttpResponseForbidden"

\* A decorator that answers 403 to every user who is not the owner.
require_workspace_ownership_AlwaysForbidden ==
    IF ~workspace.exists THEN "Http404"
    ELSE IF user.owner THEN "func"
    ELSE "HttpResponseForbidden"

\* Lines 71-80.
require_workspace_ownership ==
    IF ~workspace.exists THEN "Http404"
    ELSE IF user.owner THEN "func"
    ELSE IF user.role = NoRole THEN "HttpResponseNotFound"
    ELSE "HttpResponseForbidden"

\* The status code of an answer that is not the operation's.
StatusCode(answer) ==
    CASE answer = "HttpResponseForbidden" -> 403
      [] answer = "HttpResponseNotFound" -> 404
      [] answer = "Http404" -> 404

\* The wrapped operation: what the endpoint does once the decorator lets
\* the request through.
func(operation) ==
    /\ executed' = executed + 1
    /\ CASE operation = "retrieve" ->
              /\ response' = 200
              /\ workspace' = workspace
         [] operation = "create_network" ->
              /\ response' = 200
              /\ workspace' = [workspace EXCEPT !.networks = @ \cup {"n2"}]
         [] operation = "delete_network" ->
              /\ response' = IF "n1" \in workspace.networks THEN 204 ELSE 404
              /\ workspace' = [workspace EXCEPT !.networks = @ \ {"n1"}]
         [] operation = "delete_workspace" ->
              /\ response' = 204
              /\ workspace' = NoWorkspace

\* What a request does, given the answer of its decorator.
Answer(endpoint, answer) ==
    /\ request' = endpoint
    /\ requests' = requests + 1
    /\ IF answer = "func"
       THEN func(endpoint.operation)
       ELSE /\ response' = StatusCode(answer)
            /\ UNCHANGED <<workspace, executed>>
    /\ UNCHANGED <<mode, ingestVars, uploadVars, funcVars, user, invalid_columns>>

\* A request to an endpoint behind require_workspace_permission.
PermissionRequest ==
    /\ mode = "auth"
    /\ requests < MaxRequests
    /\ \E endpoint \in {e \in Endpoints : e.decorator = "require_workspace_permission"} :
          Answer(endpoint, require_workspace_permission(endpoint.minimum_permission))

\* A request to an endpoint behind require_workspace_ownership.
OwnershipRequest ==
    /\ mode = "auth"
    /\ requests < MaxRequests
    /\ \E endpoint \in {e \in Endpoints : e.decorator = "require_workspace_ownership"} :
          Answer(endpoint, require_workspace_ownership)

InitAuth ==
    /\ mode = "auth"
    /\ IdleIngest /\ IdleUpload /\ IdleFunc
    /\ workspace \in Workspaces
    /\ user \in Users
    /\ (~workspace.exists => user = [owner |-> FALSE, role |-> NoRole])
    /\ request = NoRequest
    /\ response = 0
    /\ invalid_columns = {}
    /\ requests = 0
    /\ executed = 0

NextAuth == PermissionRequest \/ OwnershipRequest

SpecAuth == InitAuth /\ [][NextAuth]_vars

\* This step is a request to an endpoint behind require_workspace_permission.
PermissionStep ==
    requests' # requests /\ request'.decorator = "require_workspace_permission"

(***************************************************************************)
(* C19.  Whatever the minimum permission, a request behind                 *)
(* require_workspace_permission from a user who is not the owner and holds *)
(* no role on a workspace that is not public is answered 404, and the      *)
(* wrapped operation does not run: the workspace and its networks are      *)
(* unchanged.                                                              *)
(***************************************************************************)
C19_NoRoleNotFound ==
    [][(/\ PermissionStep
        /\ workspace.exists /\ ~workspace.public
        /\ ~user.owner /\ user.role = NoRole)
       => (response' = 404 /\ executed' = executed /\ workspace' = workspace)]_vars

\* A stranger asked for the deletion of a network of a private workspace.
C19_Witness ==
    /\ request.decorator = "require_workspace_permission"
    /\ request.operation = "delete_network"
    /\ workspace.exists /\ ~workspace.public /\ "n1" \in workspace.networks
    /\ ~user.owner /\ user.role = NoRole
    /\ response = 404 /\ executed = 0

(***************************************************************************)
(* C20.  A request behind require_workspace_permission from a user who is  *)
(* not the owner and whose role is lower than the minimum permission of    *)
(* the endpoint is answered 403, and the wrapped operation does not run:   *)
(* what it would create or delete is unchanged.                            *)
(***************************************************************************)
C20_LowerRoleForbidden ==
    [][(/\ PermissionStep
        /\ workspace.exists
        /\ ~user.owner /\ user.role # NoRole
        /\ Rank(user.role) < Rank(request'.minimum_permission))
       => (response' = 403 /\ executed' = executed /\ workspace' = workspace)]_vars

\* A reader asked for the creation of a network.
C20_Witness ==
    /\ request.decorator = "require_workspace_permission"
    /\ request.operation = "create_network"
    /\ request.minimum_permission = "writer"
    /\ workspace.exists /\ workspace.networks = {"n1"}
    /\ ~user.owner /\ user.role = "reader"
    /\ response = 403 /\ executed = 0

\* This step is a request to an endpoint behind require_workspace_ownership.
OwnershipStep ==
    requests' # requests /\ request'.decorator = "require_workspace_ownership"

(***************************************************************************)
(* C21.  An operation behind require_workspace_ownership runs if and only  *)
(* if the user is the owner of the workspace; a user who is not the owner  *)
(* is answered 403 with a role and 404 with none, and in both cases the    *)
(* workspace record and its database still exist afterwards.               *)
(***************************************************************************)
C21_OwnerOnly ==
    [][(OwnershipStep /\ workspace.exists) =>
          /\ (executed' = executed + 1) <=> user.owner
          /\ ~user.owner =>
                /\ executed' = executed
                /\ response' = IF user.role = NoRole THEN 404 ELSE 403
                /\ workspace' = workspace
                /\ workspace'.exists /\ workspace'.database]_vars

\* A maintainer asked for the deletion of the workspace.
C21_Witness ==
    /\ request.decorator = "require_workspace_ownership"
    /\ request.operation = "delete_workspace"
    /\ ~user.owner /\ user.role = "maintainer"
    /\ response = 403 /\ executed = 0
    /\ workspace.exists /\ workspace.database

(***************************************************************************)
(* C22.  On a public workspace every user, one with no role included, is   *)
(* let through to every operation whose minimum permission is READER: the  *)
(* wrapped operation runs, and the answer is the operation's, never a 403  *)
(* or a 404 of the decorator.                                              *)
(***************************************************************************)
C22_PublicReadable ==
    [][(/\ PermissionStep
        /\ workspace.exists /\ workspace.public
        /\ request'.minimum_permission = "reader")
       => /\ executed' = executed + 1
          /\ response' # 403
          /\ request'.operation = "retrieve" => response' = 200]_vars

\* A user with no role has retrieved from a public workspace.
C22_Witness ==
    /\ request.decorator = "require_workspace_permission"
    /\ request.minimum_permission = "reader"
    /\ request.operation = "retrieve"
    /\ workspace.exists /\ workspace.public
    /\ ~user.owner /\ user.role = NoRole
    /\ response = 200 /\ executed = 1

(***************************************************************************)
(* C23.  The existence of a private workspace is not revealed: to a user   *)
(* who is not its owner and has no role on it, each decorator answers a    *)
(* request on an existing workspace that is not public with 404, the       *)
(* status it answers for a name no workspace has, whatever the operation   *)
(* and the minimum permission; in neither case the operation runs.         *)
(***************************************************************************)
C23_PrivateLooksAbsent ==
    [][((PermissionStep \/ OwnershipStep)
        /\ ~user.owner /\ user.role = NoRole
        /\ (~workspace.exists \/ ~workspace.public))
       => (response' = 404 /\ executed' = executed /\ workspace' = workspace)]_vars

\* A stranger asked for the deletion of a private workspace, and then
\* again: the two answers are those of a workspace that does not exist.
C23_Witness ==
    /\ request.decorator = "require_workspace_ownership"
    /\ workspace.exists /\ ~workspace.public
    /\ ~user.owner /\ user.role = NoRole
    /\ response = 404 /\ executed = 0 /\ requests = 2

\* The endpoint process_row resolves from the row's cell in the column: its
\* string, under the node table name when it has no separator and a name
\* is supplied.
Resolved(row, col) ==
    LET raw == str(Get(row, col))
    IN  IF Find(raw, "/") = 0 /\ Truthy(node_table_name)
        THEN node_table_name.v \o <<"/">> \o raw
        ELSE raw

(***************************************************************************)
(* C24.  Whenever process_row returns for an edge row of which a resolved  *)
(* endpoint holds more than one '/', it returns the rejected marker, with  *)
(* a node table name and without one; so both endpoints of every edge      *)
(* document it returns hold exactly one '/'.                               *)
(***************************************************************************)
C24_OneSeparator ==
    EdgeRowReturned =>
        /\ (Count(Resolved(LastRow, edge_source), "/") > 1
              \/ Count(Resolved(LastRow, edge_target), "/") > 1) => new_row = Rejected
        /\ new_row.kind = "doc" =>
              /\ Count(new_row.doc["_from"].v, "/") = 1
              /\ Count(new_row.doc["_to"].v, "/") = 1

\* A row with a key and a target of two separators was rejected with no
\* node table name supplied.
C24_Witness ==
    /\ EdgeRowReturned /\ ~Truthy(node_table_name)
    /\ HasValue(LastRow, primary_key)
    /\ Count(Resolved(LastRow, edge_source), "/") = 1
    /\ Count(Resolved(LastRow, edge_target), "/") = 2
    /\ new_row = Rejected
    /\ pc = "done"

\* A document handed to put_rows or stored.
Written == {Offered[i] : i \in 1..Len(Offered)} \cup {docs[i] : i \in 1..Len(docs)}

\* table, '/', id: one separator, with text on both sides.
FullyQualified(s) == Count(s, "/") = 1 /\ Find(s, "/") > 1 /\ Find(s, "/") < Len(s)

C30_KeyOfARealCell ==
    (rowsRead # <<>> /\ primary_key # NoneKey /\ new_row.kind = "doc") =>
        /\ new_row.doc["_key"].v # <<>>
        /\ HasValue(LastRow, primary_key)
        /\ new_row.doc["_key"].v = LastRow[primary_key].v

(***************************************************************************)
(* The annotations of the table.                                           *)
(***************************************************************************)
\* The number of entries of a declaration, or of the annotations, of a type.
CountType(cols, type) == Cardinality({i \in 1..Len(cols) : cols[i].type = type})

ReservedTypes == {"primary key", "edge source", "edge target"}

\* C26 (as the code has it): process_single_table checks no declaration:
\* the annotations it persists hold as many primary keys, edge sources and
\* edge targets as the declaration it was passed, so that a declaration
\* with two primary keys, or with an edge source and no edge target, is
\* persisted as it is.
C26_AnnotationsAsDeclared ==
    annotated >= 1 =>
        \A t \in ReservedTypes : CountType(annotations, t) = CountType(column_types, t)

\* An edge source was persisted and no edge target.
C26_Witness ==
    /\ annotated = 1
    /\ CountType(annotations, "edge source") = 1
    /\ CountType(annotations, "edge target") = 0

\* C26 (as stated): the persisted annotations hold at most one primary key,
\* at most one edge source and at most one edge target, and an edge source
\* if and only if an edge target.
C26_AnnotationInvariant ==
    annotated >= 1 =>
        /\ \A t \in ReservedTypes : CountType(annotations, t) <= 1
        /\ CountType(annotations, "edge source") > 0 <=> CountType(annotations, "edge target") > 0

\* The reserved key a column goes under: the primary key under _key, and
\* the edge source and target under _from and _to when both are declared.
Rename(col) ==
    IF primary_key # NoneKey /\ col = primary_key THEN "_key"
    ELSE IF EdgeDeclaration /\ col = edge_source THEN "_from"
    ELSE IF EdgeDeclaration /\ col = edge_target THEN "_to"
    ELSE col

\* C27: the annotations are persisted in one bulk write, one for each
\* declared column with the declared type, under _key for the primary key
\* column, under _from and _to for the edge source and target columns when
\* both are declared, and under the column's name otherwise; a document
\* process_row accepts has the columns of its row under the same names.
C27_AnnotationRemapping ==
    annotated >= 1 =>
        /\ annotated = 1
        /\ Len(annotations) = Len(column_types)
        /\ {annotations[i] : i \in 1..Len(annotations)} =
               {Col(Rename(column_types[i].col), column_types[i].type) : i \in 1..Len(column_types)}
        /\ (rowsRead # <<>> /\ new_row.kind = "doc") =>
               DOMAIN new_row.doc = {Rename(c) : c \in DOMAIN LastRow}

\* A table with a primary key and both endpoints declared was annotated,
\* and a row of it was accepted.
C27_Witness ==
    /\ annotated = 1
    /\ primary_key # NoneKey
    /\ EdgeDeclaration
    /\ Col("_key", "primary key") \in {annotations[i] : i \in 1..Len(annotations)}
    /\ Col("_from", "edge source") \in {annotations[i] : i \in 1..Len(annotations)}
    /\ rowsRead # <<>>
    /\ new_row.kind = "doc"

(***************************************************************************)
(* The end of the rows.                                                    *)
(***************************************************************************)
\* The last put_rows call of this call carried no document.
EmptyLastCall == putCalls # <<>> /\ putCalls[Len(putCalls)].rows = <<>>

\* C28: a final flush of an empty buffer raises no error and writes no
\* document: the call completes and the table holds the documents flushed
\* before it, which are all the accepted documents; and the buffer is empty
\* at the end of the rows when the number of accepted rows is zero or a
\* multiple of the threshold.
C28_EmptyFinalFlush ==
    /\ EmptyLastCall =>
          /\ pc = "done"
          /\ error = "none"
          /\ putCalls[Len(putCalls)].ok
          /\ docs = Flatten([i \in 1..(Len(putCalls) - 1) |-> putCalls[i].rows])
          /\ docs = AcceptedDocuments(rowsRead)
    /\ (run = 1 /\ pc = "done" /\ Len(AcceptedDocuments(rowsRead)) % BatchSize = 0) => EmptyLastCall

\* A full batch was flushed, no row was accepted after it, and the final
\* flush was empty.
C28_Witness ==
    /\ pc = "done"
    /\ EmptyLastCall
    /\ Len(putCalls) = 2
    /\ Len(docs) = BatchSize

\* C29: the buffer of accepted documents never holds more than BatchSize
\* documents, however many rows the source has; and a row is read only when
\* the row before it has been processed and the buffer, had it reached
\* BatchSize, has been written and cleared.
C29_BoundedBuffer ==
    /\ [](Len(processed_rows) <= BatchSize)
    /\ [][Len(rowsRead') > Len(rowsRead) =>
             /\ pc = "rows"
             /\ Len(processed_rows) < BatchSize
             /\ (rowsRead # <<>> => new_row =
                    process_row(LastRow, column_types, primary_key, edge_source, edge_target,
                                node_table_name))]_vars

\* The buffer is full for the second time: a batch was written before.
C29_Witness ==
    /\ pc = "flush"
    /\ Len(processed_rows) = BatchSize
    /\ Len(docs) = BatchSize
    /\ Len(rowsRead) > 2 * BatchSize

===============================================================================
